---- MODULE Spec2Model ----
(***************************************************************************)
(* Model of package commonmqengine (src/unnamed/part_001, lines 711-1186): *)
(* the shared RabbitMQ connection/channel, the engine lock, topology       *)
(* provisioning, publish, consume registration and the retry/dead-letter   *)
(* forwarder CopyMessageToQueue ("Escalate").                              *)
(*                                                                         *)
(* Go values stored in an amqp091.Table are interface values: the model    *)
(* keeps their dynamic type next to their number, because the forwarder    *)
(* uses single-value type assertions (.(int32), .(int)) that panic on any  *)
(* other dynamic type.                                                     *)
(***************************************************************************)
EXTENDS Integers, Sequences, FiniteSets, TLC

(* ------------------------------ bounds -------------------------------- *)
\* largest configured RetryMaxAttempts explored
MaxAttemptsBound == 2
\* number of forwarder calls made on one delivery object / one message
MaxCalls == 2
\* queue length explored
MaxQueue == 2
\* longest configured password explored
MaxPasswordLen == 5

(* ------------------------- program constants -------------------------- *)
MaxInt32 == 2147483647
MinInt32 == -MaxInt32 - 1

MainQueueName == "orders"
RetryQueueName == "orders.retry"
DeadLetterQueueName == "orders.dlq"
QueueNames == {MainQueueName, RetryQueueName, DeadLetterQueueName}

\* the callers: c1 is a consumer's goroutine, c2 any other goroutine of the
\* service (an HTTP handler, a scheduled job)
Procs == {"c1", "c2"}
Consumers == {"c1"}
NoOwner == "free"

(* --------------------------- typed values ----------------------------- *)
\* a header entry: absent (nil interface) or a number with its dynamic type
None == [t |-> "none", v |-> 0]
GoInt(n) == [t |-> "int", v |-> n]
GoInt32(n) == [t |-> "int32", v |-> n]
GoInt64(n) == [t |-> "int64", v |-> n]

\* retryCount++ on an int32: two's complement wrap-around at 2^31 - 1
Int32Inc(n) == IF n = MaxInt32 THEN MinInt32 ELSE n + 1

\* strconv.Itoa: decimal digits, most significant first, "-" for negatives
Digit(d) == CASE d = 0 -> "0" [] d = 1 -> "1" [] d = 2 -> "2" [] d = 3 -> "3"
              [] d = 4 -> "4" [] d = 5 -> "5" [] d = 6 -> "6" [] d = 7 -> "7"
              [] d = 8 -> "8" [] d = 9 -> "9"

RECURSIVE ItoaNat(_)
ItoaNat(n) == IF n < 10 THEN <<Digit(n)>> ELSE ItoaNat(n \div 10) \o <<Digit(n % 10)>>

Itoa(n) == IF n < 0 THEN <<"-">> \o ItoaNat(-n) ELSE ItoaNat(n)

\* the empty string: Publishing.Expiration left at its zero value
NoExpiration == << >>

(* ------------------------------ headers ------------------------------- *)
\* an amqp091.Table as far as the forwarder reads it: is the map nil, and the
\* entries under "X-Retry-Count" (rc) and "X-Retry-TTL" (ttl)
Hdr(isNil, rc, ttl) == [nil |-> isNil, rc |-> rc, ttl |-> ttl]
NilHeaders == Hdr(TRUE, None, None)

\* a header's number, an absent header counting as 0
CountOf(h) == IF h.rc = None THEN 0 ELSE h.rc.v

\* what the broker client puts on the wire for a header value: Go int is
\* written as a 32-bit 'I' field, so it comes back as int32
WireValue(x) == IF x.t = "int" THEN GoInt32(x.v) ELSE x

\* Publishing.Headers -> Delivery.Headers through the broker: a table without
\* entries is not transmitted and arrives as a nil map
WireHeaders(h) ==
    IF h.nil \/ (h.rc = None /\ h.ttl = None)
    THEN NilHeaders
    ELSE Hdr(FALSE, WireValue(h.rc), WireValue(h.ttl))

\* the properties of a message besides its headers and expiration;
\* DeliveryMode stands for the properties of amqp091.Delivery that the
\* forwarder does not copy (DeliveryMode, Priority, Type, UserId, ...)
NoProperties ==
    [ContentType |-> "", Body |-> "", CorrelationId |-> "", AppId |-> "",
     ReplyTo |-> "", MessageId |-> "", Timestamp |-> 0, DeliveryMode |-> 0]

\* lines 1006-1012: the message SendMessageToQueue builds from its arguments
SentProperties ==
    [NoProperties EXCEPT !.ContentType = "contenttype", !.Body = "message",
                         !.CorrelationId = "correlationId", !.AppId = "system"]

\* a message of another publisher, with every property set
ExternalProperties ==
    [ContentType |-> "text/plain", Body |-> "payload",
     CorrelationId |-> "corr-1", AppId |-> "billing", ReplyTo |-> "replies",
     MessageId |-> "m-1", Timestamp |-> 1700, DeliveryMode |-> 2]

\* a forwarder that leaves ReplyTo out of the message it builds
PublishingWithoutReplyTo(message) ==
    [NoProperties EXCEPT !.ContentType = message.ContentType,
                         !.Body = message.Body,
                         !.CorrelationId = message.CorrelationId,
                         !.AppId = message.AppId,
                         !.MessageId = message.MessageId,
                         !.Timestamp = message.Timestamp]

\* lines 1099-1108: the amqp091.Publishing the forwarder builds from the
\* delivery; every field it does not name keeps its zero value
Publishing(message) ==
    [NoProperties EXCEPT !.ContentType = message.ContentType,
                         !.Body = message.Body,
                         !.CorrelationId = message.CorrelationId,
                         !.AppId = message.AppId,
                         !.ReplyTo = message.ReplyTo,
                         !.MessageId = message.MessageId,
                         !.Timestamp = message.Timestamp]

\* a message in a broker queue, with the properties SendMessageToQueue
\* gives it. esc and fresh are history: the number of forwarder publishes
\* that led to this copy, and whether the message began its life without an
\* X-Retry-Count header
Msg(h, exp, esc, fresh) ==
    [hdr |-> h, exp |-> exp, esc |-> esc, fresh |-> fresh,
     props |-> SentProperties]

\* headers an outside publisher can put on a message (wire types only)
WireCounts == {None, GoInt32(1), GoInt32(MaxInt32), GoInt64(1)}
WireTTLs == {GoInt32(120)}
ExternalHeaders ==
    {NilHeaders}
    \cup {Hdr(FALSE, rc, None) : rc \in WireCounts}
    \cup {Hdr(FALSE, rc, ttl) : rc \in {None, GoInt32(1)}, ttl \in WireTTLs}

\* values a consumer writes into d.Headers["X-Retry-TTL"] before forwarding
CallerTTLs == {0, 120}

(* ------------------------------ buildUrl ------------------------------ *)
\* Go strings are sequences of one-character strings
PasswordChars == {"x", "y"}

RECURSIVE StringsUpTo(_)
StringsUpTo(n) ==
    IF n = 0 THEN {<< >>}
    ELSE LET shorter == StringsUpTo(n - 1)
         IN  shorter \cup {Append(w, c) : w \in {v \in shorter : Len(v) = n - 1},
                                          c \in PasswordChars}

\* an MQConfiguration, as far as buildUrl reads it
Config(password) ==
    [Username |-> << >>, Password |-> password, MqHost |-> << >>, MqPort |-> 0,
     VHost |-> << >>]
\* the package variable mqconfig is never assigned: it keeps its zero value
ZeroConfig == Config(<< >>)

\* password[:n]
Prefix(str, n) == SubSeq(str, 1, n)
Ellipsis == <<".", ".", ".">>

\* lines 907-911: obfuscatedPassword
ObfuscatePassword(password) ==
    IF password # << >> /\ Len(password) > 4
    THEN Prefix(password, 4) \o Ellipsis
    ELSE password

\* fmt.Sprintf("amqp://%s:%s@%s:%d/%s", username, password, host, port, vhost)
FormatUrl(username, password, host, port, vhost) ==
    <<"a", "m", "q", "p", ":", "/", "/">> \o username \o <<":">> \o password
        \o <<"@">> \o host \o <<":">> \o Itoa(port) \o <<"/">> \o vhost

\* lines 906-916: the URL dialled and the URL written to the log
buildUrl(cfg) ==
    [url |-> FormatUrl(cfg.Username, cfg.Password, cfg.MqHost, cfg.MqPort,
                       cfg.VHost),
     urlObfuscated |-> FormatUrl(cfg.Username, ObfuscatePassword(cfg.Password),
                                 cfg.MqHost, cfg.MqPort, cfg.VHost)]

\* nothing logged yet
NotLogged == <<"-">>

(* ------------------------------- state -------------------------------- *)
VARIABLES
    conn,         \* package variable conn: [nil, closed]
    channel,      \* package variable channel: [nil, closed, onConn]
    mu,           \* package variable mu: NoOwner or the caller holding it
    brokerUp,     \* the broker accepts connections
    declared,     \* queues declared on the broker, with their arguments
    bound,        \* bindings <<queue, routing key>> on the configured exchange
    queues,       \* queue name -> sequence of messages
    maxAttempts,  \* configuration.GetConfig().RetryMaxAttempts
    pc,           \* caller -> position inside the operation it is running
    call,         \* caller -> record of the operation it is running
    dlv,          \* caller -> the amqp091.Delivery it holds
    consuming,    \* caller -> queue its delivery stream reads, or "none"
    injected,     \* another publisher's message has been created
    mqconfig,     \* package variable mqconfig (the fields buildUrl reads)
    urlObfuscated \* the connection URL last written to the log

vars == <<conn, channel, mu, brokerUp, declared, bound, queues, maxAttempts,
          pc, call, dlv, consuming, injected, mqconfig, urlObfuscated>>

NilConn == [nil |-> TRUE, closed |-> FALSE]
OpenConn == [nil |-> FALSE, closed |-> FALSE]
NilChannel == [nil |-> TRUE, closed |-> FALSE, onConn |-> FALSE]
OpenChannel == [nil |-> FALSE, closed |-> FALSE, onConn |-> TRUE]

\* conn.IsClosed() / channel.IsClosed() on a non-nil handle
ConnIsOpen == ~conn.nil /\ ~conn.closed
ChannelIsOpen == ~channel.nil /\ ~channel.closed

NoOut == [q |-> "none", hdr |-> NilHeaders, exp |-> NoExpiration]
\* name, arg: the function and its queue argument; hdrIn: the delivery's
\* headers when the call began; dialed, opened: ensureChannel called
\* amqp091.Dial / conn.Channel(); ran: the part after ensureChannel ran;
\* published: the broker took the message; out: the message built and the
\* queue decided; ret: "ok", "error", "panic", "true", "false";
\* connWasClosed: conn was non-nil and closed when the call began;
\* exchange, pub: the exchange the forwarder named in its publish and the
\* properties of the message it built
NoCall == [name |-> "none", arg |-> "none", hdrIn |-> NilHeaders,
           dialed |-> FALSE, opened |-> FALSE, ran |-> FALSE,
           published |-> FALSE, out |-> NoOut, ret |-> "none",
           connWasClosed |-> FALSE, exchange |-> "none",
           pub |-> NoProperties]
\* calls: forwarder calls made on this delivery object; noCount: the
\* delivery arrived without X-Retry-Count; esc, fresh, props: as in Msg
NoDelivery == [held |-> FALSE, hdr |-> NilHeaders, calls |-> 0,
               noCount |-> FALSE, esc |-> 0, fresh |-> FALSE,
               props |-> NoProperties]

Init ==
    /\ conn = NilConn
    /\ channel = NilChannel
    /\ mu = NoOwner
    /\ brokerUp = TRUE
    /\ declared = {}
    /\ bound = {}
    /\ queues = [q \in QueueNames |-> << >>]
    /\ maxAttempts \in 0..MaxAttemptsBound
    /\ pc = [p \in Procs |-> "idle"]
    /\ call = [p \in Procs |-> NoCall]
    /\ dlv = [p \in Procs |-> NoDelivery]
    /\ consuming = [p \in Procs |-> "none"]
    /\ injected = FALSE
    /\ mqconfig = ZeroConfig
    /\ urlObfuscated = NotLogged

(* ---------------------- the forwarder's decisions --------------------- *)
Panic == [t |-> "panic", v |-> 0]

\* lines 1087-1093: the X-Retry-Count entry after the update. Panic marks a
\* failed .(int32) assertion or the assignment to an entry of a nil map
NextCount(h) ==
    IF h.rc # None
    THEN IF h.rc.t = "int32" THEN GoInt32(Int32Inc(h.rc.v)) ELSE Panic
    ELSE IF h.nil THEN Panic ELSE GoInt(1)

\* lines 1095-1097: retryTTL, and the panic of a failed .(int) assertion
TTLPanics(h) == h.ttl # None /\ h.ttl.t # "int"
RetryTTLOf(h) == IF h.ttl = None THEN 0 ELSE h.ttl.v

\* line 1111: the dead-letter test on the updated entry
MaxAttemptsReached(rc, m) == rc.t = "int32" /\ rc.v >= m + 1

\* lines 1110-1119: the queue published to and the expiration
DecideQueue(rc, m, targetQueue) ==
    IF MaxAttemptsReached(rc, m) THEN DeadLetterQueueName ELSE targetQueue

DecideExpiration(rc, m, retryTTL) ==
    IF ~MaxAttemptsReached(rc, m) /\ retryTTL > 0 THEN Itoa(retryTTL) ELSE NoExpiration

\* lines 1085-1119 on headers h: does the call panic, the header map as the
\* call leaves it (the map is the delivery's own), and the message built
Forward(h, targetQueue, m) ==
    LET rc == NextCount(h)
        h1 == IF rc = Panic THEN h ELSE Hdr(FALSE, rc, h.ttl)
    IN  IF rc = Panic \/ TTLPanics(h)
        THEN [panic |-> TRUE, hdr |-> h1, out |-> NoOut]
        ELSE [panic |-> FALSE, hdr |-> h1,
              out |-> [q |-> DecideQueue(rc, m, targetQueue), hdr |-> h1,
                       exp |-> DecideExpiration(rc, m, RetryTTLOf(h))]]

(* --------------------------- broker effects --------------------------- *)
\* basic.publish through the default exchange: the routing key names the
\* queue; a message for a queue that does not exist is dropped (mandatory
\* is false)
IsDeclared(q) == \E d \in declared : d.name = q

Enqueue(qs, q, m) ==
    IF q \in QueueNames /\ IsDeclared(q)
    THEN [qs EXCEPT ![q] = Append(@, m)]
    ELSE qs

HasRoom(q) == q \in QueueNames => Len(queues[q]) < MaxQueue

\* what a broker call through `channel` that did not succeed gives the
\* caller: a method call on a nil *amqp091.Channel panics, a closed channel
\* returns an error
ChannelFailure == IF channel.nil THEN "panic" ELSE "error"

\* the delivery streams end when the channel closes
StreamsClosed == [p \in Procs |-> "none"]

(* ------------------------- entering an operation ---------------------- *)
\* a public function that does not take the lock
MuLockMissing(p) == TRUE

\* mu.Lock(): the caller proceeds only when nobody holds the lock
MuLock(p) == mu = NoOwner

\* mu.Lock() at the top of a public function; `first` is where it continues
Enter(p, name, arg, hdrIn, first) ==
    /\ pc[p] = "idle"
    /\ MuLock(p)
    /\ mu' = p
    /\ pc' = [pc EXCEPT ![p] = first]
    /\ call' = [call EXCEPT ![p] =
                   [NoCall EXCEPT !.name = name, !.arg = arg, !.hdrIn = hdrIn,
                                  !.connWasClosed = ~conn.nil /\ conn.closed]]
    /\ UNCHANGED <<conn, channel, brokerUp, declared, bound, queues,
                   maxAttempts, dlv, consuming>>

\* return with the deferred mu.Unlock() pending
Return(p, c) ==
    /\ pc' = [pc EXCEPT ![p] = "unlock"]
    /\ call' = [call EXCEPT ![p] = c]

ConnectRabbitMQ(p) ==
    /\ Enter(p, "ConnectRabbitMQ", "none", NilHeaders, "dial")
    /\ UNCHANGED <<injected, mqconfig, urlObfuscated>>

\* lines 989-993; callable any number of times, as long as the main queue
\* has room for one more message
SendMessageToQueue(p) ==
    /\ HasRoom(MainQueueName)
    /\ Enter(p, "SendMessageToQueue", "none", NilHeaders, "dial")
    /\ UNCHANGED <<injected, mqconfig, urlObfuscated>>

ConsumeFromQueue(p, queueName) ==
    /\ p \in Consumers
    /\ queueName \in QueueNames
    /\ Enter(p, "ConsumeFromQueue", queueName, NilHeaders, "dial")
    /\ UNCHANGED <<injected, mqconfig, urlObfuscated>>

CopyMessageToQueue(p, targetQueue) ==
    /\ dlv[p].held
    /\ dlv[p].calls < MaxCalls
    /\ dlv[p].esc < MaxAttemptsBound + 2
    /\ HasRoom(targetQueue) /\ HasRoom(DeadLetterQueueName)
    /\ Enter(p, "CopyMessageToQueue", targetQueue, dlv[p].hdr, "dial")
    /\ UNCHANGED <<injected, mqconfig, urlObfuscated>>

Close(p) ==
    /\ Enter(p, "Close", "none", NilHeaders, "close")
    /\ UNCHANGED <<injected, mqconfig, urlObfuscated>>

\* an IsConnected that calls ensureChannel first
IsConnectedReconnects(p) ==
    /\ Enter(p, "IsConnected", "none", NilHeaders, "dial")
    /\ UNCHANGED <<injected, mqconfig, urlObfuscated>>

IsConnected(p) ==
    /\ Enter(p, "IsConnected", "none", NilHeaders, "read")
    /\ UNCHANGED <<injected, mqconfig, urlObfuscated>>

\* an IsHealthy that calls ensureChannel first
IsHealthyReconnects(p) ==
    /\ Enter(p, "IsHealthy", "none", NilHeaders, "dial")
    /\ UNCHANGED <<injected, mqconfig, urlObfuscated>>

IsHealthy(p) ==
    /\ Enter(p, "IsHealthy", "none", NilHeaders, "read")
    /\ UNCHANGED <<injected, mqconfig, urlObfuscated>>

GetChannel(p) ==
    /\ Enter(p, "GetChannel", "none", NilHeaders, "read")
    /\ UNCHANGED <<injected, mqconfig, urlObfuscated>>

GetConnection(p) ==
    /\ Enter(p, "GetConnection", "none", NilHeaders, "read")
    /\ UNCHANGED <<injected, mqconfig, urlObfuscated>>

(* ---------------------------- ensureChannel --------------------------- *)
\* an ensureChannel that dials on every call
NeedsDialAlways == TRUE

\* line 885: does ensureChannel dial?
NeedsDial == conn.nil \/ conn.closed
\* an ensureChannel that opens a channel only when it has none
NeedsChannelNilOnly == channel.nil

\* line 894: does ensureChannel open a channel?
NeedsChannel == channel.nil \/ channel.closed

\* lines 883-892: buildUrl logs the obfuscated URL; amqp091.Dial replaces
\* conn; on failure conn is nil and the operation returns the error
ensureChannelDial(p) ==
    /\ pc[p] = "dial"
    /\ urlObfuscated' = buildUrl(mqconfig).urlObfuscated
    /\ IF ~NeedsDial
       THEN /\ pc' = [pc EXCEPT ![p] = "open"]
            /\ UNCHANGED <<conn, channel, call>>
       ELSE IF brokerUp
       THEN /\ conn' = OpenConn
            /\ channel' = [channel EXCEPT !.onConn = FALSE]
            /\ pc' = [pc EXCEPT ![p] = "open"]
            /\ call' = [call EXCEPT ![p].dialed = TRUE]
       ELSE /\ conn' = NilConn
            /\ channel' = [channel EXCEPT !.onConn = FALSE]
            /\ Return(p, [call[p] EXCEPT !.dialed = TRUE, !.ret = "error"])
    /\ UNCHANGED <<mu, brokerUp, declared, bound, queues, maxAttempts, dlv,
                   consuming, injected, mqconfig>>

\* a provisioning that goes from ensureChannel to the retry queue
AfterEnsureSkipsMain(name) ==
    IF name = "ConnectRabbitMQ" THEN "declareRetry" ELSE "body"

\* where an operation continues after ensureChannel returned nil
AfterEnsure(name) == IF name = "ConnectRabbitMQ" THEN "declareMain" ELSE "body"

\* lines 894-903: conn.Channel() replaces channel; it fails when the
\* connection was closed meanwhile, leaving channel nil
ensureChannelOpen(p) ==
    /\ pc[p] = "open"
    /\ IF ~NeedsChannel
       THEN /\ pc' = [pc EXCEPT ![p] = AfterEnsure(call[p].name)]
            /\ UNCHANGED <<channel, call>>
       ELSE IF ConnIsOpen
       THEN /\ channel' = OpenChannel
            /\ pc' = [pc EXCEPT ![p] = AfterEnsure(call[p].name)]
            /\ call' = [call EXCEPT ![p].opened = TRUE]
       ELSE /\ channel' = NilChannel
            /\ Return(p, [call[p] EXCEPT !.opened = TRUE, !.ret = "error"])
    /\ UNCHANGED <<conn, mu, brokerUp, declared, bound, queues, maxAttempts,
                   dlv, consuming, injected, mqconfig, urlObfuscated>>

\* a function whose unlock is skipped when it panics
UnlockUnlessPanic(p) ==
    /\ pc[p] = "unlock"
    /\ mu' = IF call[p].ret = "panic" THEN mu ELSE NoOwner
    /\ pc' = [pc EXCEPT ![p] = "idle"]
    /\ call' = [call EXCEPT ![p] = NoCall]
    /\ UNCHANGED <<conn, channel, brokerUp, declared, bound, queues,
                   maxAttempts, dlv, consuming, injected, mqconfig, urlObfuscated>>

\* the deferred mu.Unlock() of every public function; the call is over
Unlock(p) ==
    /\ pc[p] = "unlock"
    /\ mu' = NoOwner
    /\ pc' = [pc EXCEPT ![p] = "idle"]
    /\ call' = [call EXCEPT ![p] = NoCall]
    /\ UNCHANGED <<conn, channel, brokerUp, declared, bound, queues,
                   maxAttempts, dlv, consuming, injected, mqconfig, urlObfuscated>>

(* ------------------------- topology provisioning ---------------------- *)
\* configuration.GetConfig().RetryTTL, the retry queue's x-message-ttl
RetryTTL == 5000
NoArgs == [ttl |-> -1, dlx |-> "none", dlrk |-> "none"]
\* a retry queue that dead-letters to itself
RetryArgsToItself == [ttl |-> RetryTTL, dlx |-> "", dlrk |-> RetryQueueName]

\* a retry queue without x-message-ttl
RetryArgsNoTTL == [ttl |-> -1, dlx |-> "", dlrk |-> MainQueueName]

\* a retry queue without dead-lettering
RetryArgsNoDeadLetter == [ttl |-> RetryTTL, dlx |-> "none", dlrk |-> "none"]

\* lines 962-966: the retry queue's argument table
RetryArgs == [ttl |-> RetryTTL, dlx |-> "", dlrk |-> MainQueueName]

\* one broker call of ConnectRabbitMQ: it fails on a closed channel, and the
\* function returns the error at once
TopologyStep(p, at, next, decl, bind) ==
    /\ pc[p] = at
    /\ IF ChannelIsOpen
       THEN /\ declared' = declared \cup decl
            /\ bound' = bound \cup bind
            /\ IF next = "unlock"
               THEN Return(p, [call[p] EXCEPT !.ran = TRUE, !.ret = "ok"])
               ELSE /\ pc' = [pc EXCEPT ![p] = next]
                    /\ UNCHANGED call
       ELSE /\ Return(p, [call[p] EXCEPT !.ret = ChannelFailure])
            /\ UNCHANGED <<declared, bound>>
    /\ UNCHANGED <<conn, channel, mu, brokerUp, queues, maxAttempts, dlv,
                   consuming, injected, mqconfig, urlObfuscated>>

\* lines 932-942
DeclareMainQueue(p) ==
    TopologyStep(p, "declareMain", "bindMain",
                 {[name |-> MainQueueName, args |-> NoArgs]}, {})
\* lines 944-953
BindMainQueue(p) ==
    TopologyStep(p, "bindMain", "declareRetry", {},
                 {<<MainQueueName, MainQueueName>>})
\* lines 956-970
DeclareRetryQueue(p) ==
    TopologyStep(p, "declareRetry", "declareDead",
                 {[name |-> RetryQueueName, args |-> RetryArgs]}, {})
\* lines 973-986
DeclareDeadLetterQueue(p) ==
    TopologyStep(p, "declareDead", "unlock",
                 {[name |-> DeadLetterQueueName, args |-> NoArgs]}, {})

(* ------------------------------ publisher ----------------------------- *)
\* a publish with the retry queue's name as routing key
PublishRoutingKeyRetry == RetryQueueName

\* line 1003: the routing key of SendMessageToQueue's publish
PublishRoutingKey == MainQueueName

\* the configured exchange delivers to every queue bound with the routing key
Route(qs, key, m) ==
    IF \E q \in QueueNames : <<q, key>> \in bound
    THEN Enqueue(qs, CHOOSE q \in QueueNames : <<q, key>> \in bound, m)
    ELSE qs

\* lines 999-1016: publish to the configured exchange, routing key = main
\* queue name, Headers: amqp091.Table{}; a publish on a closed channel fails
SendMessageToQueueBody(p) ==
    /\ pc[p] = "body"
    /\ call[p].name = "SendMessageToQueue"
    /\ IF ~ChannelIsOpen
       THEN /\ Return(p, [call[p] EXCEPT !.ran = TRUE, !.ret = ChannelFailure])
            /\ UNCHANGED queues
       ELSE /\ queues' = Route(queues, PublishRoutingKey,
                               Msg(WireHeaders(Hdr(FALSE, None, None)),
                                   NoExpiration, 0, TRUE))
            /\ Return(p, [call[p] EXCEPT !.ran = TRUE, !.published = TRUE,
                                          !.ret = "ok"])
    /\ UNCHANGED <<conn, channel, mu, brokerUp, declared, bound, maxAttempts,
                   dlv, consuming, injected, mqconfig, urlObfuscated>>

(* ------------------------------ consumer ------------------------------ *)
\* lines 1033-1049: channel.Consume registers the caller's delivery stream
ConsumeFromQueueBody(p) ==
    /\ pc[p] = "body"
    /\ call[p].name = "ConsumeFromQueue"
    /\ IF ChannelIsOpen /\ IsDeclared(call[p].arg)
       THEN /\ consuming' = [consuming EXCEPT ![p] = call[p].arg]
            /\ Return(p, [call[p] EXCEPT !.ran = TRUE, !.ret = "ok"])
            /\ UNCHANGED channel
       ELSE \* the broker answers a consume on an unknown queue by closing
            \* the channel
            /\ Return(p, [call[p] EXCEPT
                             !.ran = TRUE,
                             !.ret = IF ChannelIsOpen THEN "error" ELSE ChannelFailure])
            /\ channel' = IF ChannelIsOpen THEN [channel EXCEPT !.closed = TRUE]
                          ELSE channel
            /\ consuming' = IF ChannelIsOpen THEN StreamsClosed ELSE consuming
    /\ UNCHANGED <<conn, mu, brokerUp, declared, bound, queues,
                   maxAttempts, dlv, injected, mqconfig, urlObfuscated>>

(* ------------------------------ forwarder ----------------------------- *)
\* the test of the publish error inverted
CopyResultInverted(publishFailed) == IF publishFailed THEN "ok" ELSE "error"

\* lines 1132-1135: what CopyMessageToQueue returns for PublishWithContext's
\* error
CopyResult(publishFailed) == IF publishFailed THEN "error" ELSE "ok"

\* lines 1085-1135 after ensureChannel returned nil: update the headers of
\* the delivery in place, build the message, decide the queue, publish
CopyMessageToQueueBody(p) ==
    /\ pc[p] = "body"
    /\ call[p].name = "CopyMessageToQueue"
    /\ LET f == Forward(dlv[p].hdr, call[p].arg, maxAttempts)
           sent == ~f.panic /\ ChannelIsOpen
           esc == IF sent THEN dlv[p].esc + 1 ELSE dlv[p].esc
       IN  /\ dlv' = [dlv EXCEPT ![p].hdr = f.hdr, ![p].calls = @ + 1,
                                 ![p].esc = esc]
           /\ queues' = IF sent
                        THEN Enqueue(queues, f.out.q,
                                     [Msg(WireHeaders(f.out.hdr), f.out.exp, esc,
                                          dlv[p].fresh)
                                        EXCEPT !.props = Publishing(dlv[p].props)])
                        ELSE queues
           /\ Return(p, [call[p] EXCEPT
                            !.ran = TRUE,
                            !.out = f.out,
                            !.exchange = IF f.panic THEN "none" ELSE "",
                            !.pub = IF f.panic THEN NoProperties
                                    ELSE Publishing(dlv[p].props),
                            !.published = sent,
                            !.ret = IF f.panic \/ channel.nil THEN "panic"
                                    ELSE CopyResult(~sent)])
    /\ UNCHANGED <<conn, channel, mu, brokerUp, declared, bound, maxAttempts,
                   consuming, injected, mqconfig, urlObfuscated>>

(* ------------------------- Close and the readers ---------------------- *)
\* lines 1142-1144: channel.Close() when there is a channel; the handle
\* stays, the channel is closed and its delivery streams end
CloseChannel(p) ==
    /\ pc[p] = "close"
    /\ IF channel.nil
       THEN UNCHANGED <<channel, consuming>>
       ELSE /\ channel' = [channel EXCEPT !.closed = TRUE]
            /\ consuming' = StreamsClosed
    /\ pc' = [pc EXCEPT ![p] = "closeConn"]
    /\ UNCHANGED <<conn, mu, brokerUp, declared, bound, queues, maxAttempts,
                   call, dlv, injected, mqconfig, urlObfuscated>>

\* lines 1145-1149: conn.Close() when there is a connection, then both
\* handles are set to nil
CloseConn(p) ==
    /\ pc[p] = "closeConn"
    /\ conn' = NilConn
    /\ channel' = NilChannel
    /\ consuming' = StreamsClosed
    /\ Return(p, [call[p] EXCEPT !.ran = TRUE, !.ret = "ok"])
    /\ UNCHANGED <<mu, brokerUp, declared, bound, queues, maxAttempts, dlv,
                   injected, mqconfig, urlObfuscated>>

\* lines 1155-1158
IsConnectedResult == ~channel.nil /\ ~conn.nil
\* an IsHealthy that does not ask conn.IsClosed()
IsHealthyIgnoresClosed == ~(conn.nil \/ channel.nil)

\* lines 1175-1185
IsHealthyResult == ~(conn.nil \/ channel.nil) /\ ~conn.closed

Bool(b) == IF b THEN "true" ELSE "false"

\* the bodies of IsConnected, IsHealthy, GetChannel and GetConnection
ReadBody(p) ==
    /\ pc[p] = "read"
    /\ Return(p, [call[p] EXCEPT
                     !.ran = TRUE,
                     !.ret = CASE call[p].name = "IsConnected" -> Bool(IsConnectedResult)
                               [] call[p].name = "IsHealthy" -> Bool(IsHealthyResult)
                               [] call[p].name = "GetChannel" -> Bool(~channel.nil)
                               [] OTHER -> Bool(~conn.nil)])
    /\ UNCHANGED <<conn, channel, mu, brokerUp, declared, bound, queues,
                   maxAttempts, dlv, consuming, injected, mqconfig, urlObfuscated>>

(* ------------------------ broker and callers -------------------------- *)
\* the broker goes away: the client marks the connection and its channels
\* closed (what conn.IsClosed() / channel.IsClosed() report), streams end
BrokerDown ==
    /\ brokerUp
    /\ brokerUp' = FALSE
    /\ conn' = IF conn.nil THEN conn ELSE [conn EXCEPT !.closed = TRUE]
    /\ channel' = IF channel.nil THEN channel ELSE [channel EXCEPT !.closed = TRUE]
    /\ consuming' = StreamsClosed
    /\ UNCHANGED <<mu, declared, bound, queues, maxAttempts, pc, call, dlv,
                   injected, mqconfig, urlObfuscated>>

BrokerBack ==
    /\ ~brokerUp
    /\ brokerUp' = TRUE
    /\ UNCHANGED <<conn, channel, mu, declared, bound, queues, maxAttempts,
                   pc, call, dlv, consuming, injected, mqconfig, urlObfuscated>>

\* a channel-level exception closes the channel alone
ChannelException ==
    /\ ChannelIsOpen
    /\ channel' = [channel EXCEPT !.closed = TRUE]
    /\ consuming' = StreamsClosed
    /\ UNCHANGED <<conn, mu, brokerUp, declared, bound, queues, maxAttempts,
                   pc, call, dlv, injected, mqconfig, urlObfuscated>>

\* another publisher puts a message with headers h in the main queue, once
\* the topology stands
ExternalPublish(h) ==
    /\ ~injected
    /\ brokerUp
    /\ \A q \in QueueNames : IsDeclared(q)
    /\ HasRoom(MainQueueName)
    /\ injected' = TRUE
    /\ UNCHANGED <<mqconfig, urlObfuscated>>
    /\ queues' = Enqueue(queues, MainQueueName,
                         [Msg(h, NoExpiration, 0, h.rc = None)
                            EXCEPT !.props = ExternalProperties])
    /\ UNCHANGED <<conn, channel, mu, brokerUp, declared, bound, maxAttempts,
                   pc, call, dlv, consuming>>

\* a stream that can be read only while nobody holds the engine lock
DeliverUnderLock(p) ==
    /\ pc[p] = "idle"
    /\ mu = NoOwner
    /\ consuming[p] # "none"
    /\ queues[consuming[p]] # << >>
    /\ LET m == Head(queues[consuming[p]])
       IN  dlv' = [dlv EXCEPT ![p] =
                      [held |-> TRUE, hdr |-> m.hdr, calls |-> 0,
                       noCount |-> m.hdr.rc = None, esc |-> m.esc,
                       fresh |-> m.fresh, props |-> m.props]]
    /\ queues' = [queues EXCEPT ![consuming[p]] = Tail(@)]
    /\ UNCHANGED <<conn, channel, mu, brokerUp, declared, bound, maxAttempts,
                   pc, call, consuming, injected, mqconfig, urlObfuscated>>

\* the caller reads the next delivery from the stream ConsumeFromQueue
\* returned (line 1049): a receive on a Go channel, outside the lock
Deliver(p) ==
    /\ pc[p] = "idle"
    /\ consuming[p] # "none"
    /\ queues[consuming[p]] # << >>
    /\ LET m == Head(queues[consuming[p]])
       IN  dlv' = [dlv EXCEPT ![p] =
                      [held |-> TRUE, hdr |-> m.hdr, calls |-> 0,
                       noCount |-> m.hdr.rc = None, esc |-> m.esc,
                       fresh |-> m.fresh, props |-> m.props]]
    /\ queues' = [queues EXCEPT ![consuming[p]] = Tail(@)]
    /\ UNCHANGED <<conn, channel, mu, brokerUp, declared, bound, maxAttempts,
                   pc, call, consuming, injected, mqconfig, urlObfuscated>>

\* the caller sets d.Headers["X-Retry-TTL"] = v (a Go int) on the delivery
\* it received, before it forwards it
SetRetryTTL(p, v) ==
    /\ pc[p] = "idle"
    /\ dlv[p].held
    /\ dlv[p].calls = 0
    /\ ~dlv[p].hdr.nil
    /\ dlv[p].hdr.ttl # GoInt(v)
    /\ dlv' = [dlv EXCEPT ![p].hdr.ttl = GoInt(v)]
    /\ UNCHANGED <<conn, channel, mu, brokerUp, declared, bound, queues,
                   maxAttempts, pc, call, consuming, injected, mqconfig, urlObfuscated>>

\* a message expires by its own expiration or by the x-message-ttl of the
\* queue it sits in, whichever is set
Expires(m, args) == m.exp # NoExpiration \/ args.ttl >= 0

\* the retry queue's x-message-ttl / the message's expiration runs out: the
\* broker dead-letters the head of the retry queue to the main queue
DeadLetter ==
    /\ brokerUp
    /\ queues[RetryQueueName] # << >>
    /\ \E d \in declared : /\ d.name = RetryQueueName
                           /\ d.args.dlx = "" /\ d.args.dlrk = MainQueueName
                           /\ Expires(Head(queues[RetryQueueName]), d.args)
    /\ HasRoom(MainQueueName)
    /\ LET m == Head(queues[RetryQueueName])
       IN  queues' = [Enqueue(queues, MainQueueName, [m EXCEPT !.exp = NoExpiration])
                        EXCEPT ![RetryQueueName] = Tail(@)]
    /\ UNCHANGED <<conn, channel, mu, brokerUp, declared, bound, maxAttempts,
                   pc, call, dlv, consuming, injected, mqconfig, urlObfuscated>>

\* two goroutines calling the public functions, each call running step by
\* step, the consumer reading its stream, and the broker failing
Callers ==
    \/ \E p \in Procs : ConnectRabbitMQ(p)
    \/ \E p \in Procs : SendMessageToQueue(p)
    \/ \E p \in Procs : ConsumeFromQueue(p, MainQueueName)
    \/ \E p \in Procs : \E q \in {RetryQueueName, DeadLetterQueueName} :
          CopyMessageToQueue(p, q)
    \/ \E p \in Procs : Close(p)
    \/ \E p \in Procs : IsConnected(p)
    \/ \E p \in Procs : IsHealthy(p)
    \/ \E p \in Procs : GetChannel(p)
    \/ \E p \in Procs : GetConnection(p)
    \/ \E p \in Procs : ensureChannelDial(p)
    \/ \E p \in Procs : ensureChannelOpen(p)
    \/ \E p \in Procs : DeclareMainQueue(p)
    \/ \E p \in Procs : BindMainQueue(p)
    \/ \E p \in Procs : DeclareRetryQueue(p)
    \/ \E p \in Procs : DeclareDeadLetterQueue(p)
    \/ \E p \in Procs : SendMessageToQueueBody(p)
    \/ \E p \in Procs : ConsumeFromQueueBody(p)
    \/ \E p \in Procs : CopyMessageToQueueBody(p)
    \/ \E p \in Procs : CloseChannel(p)
    \/ \E p \in Procs : CloseConn(p)
    \/ \E p \in Procs : ReadBody(p)
    \/ \E p \in Procs : Unlock(p)
    \/ BrokerDown
    \/ BrokerBack
    \/ ChannelException
    \/ \E p \in Procs : Deliver(p)
    \/ \E p \in Procs : \E v \in CallerTTLs : SetRetryTTL(p, v)

Next ==
    \/ Callers
    \/ \E h \in ExternalHeaders : ExternalPublish(h)

\* the engine, its callers and the broker's failures; messages the forwarder
\* publishes stay where it put them (dead-lettering is in SpecLife)
Spec == Init /\ [][Next]_vars

\* The same engine and callers where the other publisher's message carries
\* headers of the types the forwarder reads (a count that is absent or an
\* int32, no X-Retry-TTL from the wire); messages without headers come from
\* SendMessageToQueue.
TypedHeaders == {Hdr(FALSE, None, None), Hdr(FALSE, GoInt32(1), None)}

TypedNext ==
    \/ Callers
    \/ \E h \in TypedHeaders : ExternalPublish(h)

SpecTyped == Init /\ [][TypedNext]_vars

(* ------------------------ a message's lifetime ------------------------ *)
\* One consumer on a reachable broker: it provisions the topology, consumes
\* the main queue and forwards every delivery to the retry queue, and the
\* broker dead-letters the retry queue back to the main queue.
Consumer == "c1"

LifeNext ==
    \/ ConnectRabbitMQ(Consumer)
    \/ ConsumeFromQueue(Consumer, MainQueueName)
    \/ CopyMessageToQueue(Consumer, RetryQueueName)
    \/ ensureChannelDial(Consumer)
    \/ ensureChannelOpen(Consumer)
    \/ DeclareMainQueue(Consumer)
    \/ BindMainQueue(Consumer)
    \/ DeclareRetryQueue(Consumer)
    \/ DeclareDeadLetterQueue(Consumer)
    \/ ConsumeFromQueueBody(Consumer)
    \/ CopyMessageToQueueBody(Consumer)
    \/ Unlock(Consumer)
    \/ \E h \in ExternalHeaders : ExternalPublish(h)
    \/ Deliver(Consumer)
    \/ \E v \in CallerTTLs : SetRetryTTL(Consumer, v)
    \/ DeadLetter

SpecLife == Init /\ [][LifeNext]_vars

\* The failure-handling consumer: it forwards each delivery once, to the
\* retry queue, and goes on to the next delivery. The broker's expiry timers
\* run: a message the broker can dead-letter is dead-lettered.
ForwardOnce ==
    /\ dlv[Consumer].calls = 0
    /\ CopyMessageToQueue(Consumer, RetryQueueName)

RedeliveryNext ==
    \/ ConnectRabbitMQ(Consumer)
    \/ ConsumeFromQueue(Consumer, MainQueueName)
    \/ ForwardOnce
    \/ ensureChannelDial(Consumer)
    \/ ensureChannelOpen(Consumer)
    \/ DeclareMainQueue(Consumer)
    \/ BindMainQueue(Consumer)
    \/ DeclareRetryQueue(Consumer)
    \/ DeclareDeadLetterQueue(Consumer)
    \/ ConsumeFromQueueBody(Consumer)
    \/ CopyMessageToQueueBody(Consumer)
    \/ Unlock(Consumer)
    \/ \E h \in ExternalHeaders : ExternalPublish(h)
    \/ Deliver(Consumer)
    \/ \E v \in CallerTTLs : SetRetryTTL(Consumer, v)
    \/ DeadLetter

SpecRedelivery == Init /\ [][RedeliveryNext]_vars /\ WF_vars(DeadLetter)

(* ------------------------- the retry cycle ---------------------------- *)
\* The failure-handling consumer with a publisher: messages come from
\* SendMessageToQueue or from another party, the consumer reads every
\* delivery offered to it and forwards it once to the retry queue, every
\* call runs to its end, and the broker dead-letters what expires. A count
\* of MaxInt32 is left out: its wrap-around (see C5) would need 2^32 rounds.
RetryHeaders == ExternalHeaders \ {Hdr(FALSE, GoInt32(MaxInt32), None)}

ConsumerStep ==
    \/ ensureChannelDial(Consumer)
    \/ ensureChannelOpen(Consumer)
    \/ DeclareMainQueue(Consumer)
    \/ BindMainQueue(Consumer)
    \/ DeclareRetryQueue(Consumer)
    \/ DeclareDeadLetterQueue(Consumer)
    \/ SendMessageToQueueBody(Consumer)
    \/ ConsumeFromQueueBody(Consumer)
    \/ CopyMessageToQueueBody(Consumer)
    \/ Unlock(Consumer)

RetryNext ==
    \/ ConnectRabbitMQ(Consumer)
    \/ SendMessageToQueue(Consumer)
    \/ ConsumeFromQueue(Consumer, MainQueueName)
    \/ ForwardOnce
    \/ ConsumerStep
    \/ \E h \in RetryHeaders : ExternalPublish(h)
    \/ Deliver(Consumer)
    \/ \E v \in CallerTTLs : SetRetryTTL(Consumer, v)
    \/ DeadLetter

SpecRetry ==
    /\ Init /\ [][RetryNext]_vars
    /\ WF_vars(ConsumerStep)
    /\ WF_vars(DeadLetter)
    /\ SF_vars(Deliver(Consumer))
    /\ SF_vars(ForwardOnce)

(* --------------------- failures between operations -------------------- *)
\* The engine with a broker that changes state only while no operation is
\* running: what a caller sees when the broker stays as it is for the
\* duration of its call.
BrokerDownBetweenCalls == mu = NoOwner /\ BrokerDown
BrokerBackBetweenCalls == mu = NoOwner /\ BrokerBack
ChannelExceptionBetweenCalls == mu = NoOwner /\ ChannelException

SteadyNext ==
    \/ \E p \in Procs : ConnectRabbitMQ(p)
    \/ \E p \in Procs : SendMessageToQueue(p)
    \/ \E p \in Procs : Close(p)
    \/ \E p \in Procs : IsConnected(p)
    \/ \E p \in Procs : IsHealthy(p)
    \/ \E p \in Procs : ensureChannelDial(p)
    \/ \E p \in Procs : ensureChannelOpen(p)
    \/ \E p \in Procs : DeclareMainQueue(p)
    \/ \E p \in Procs : BindMainQueue(p)
    \/ \E p \in Procs : DeclareRetryQueue(p)
    \/ \E p \in Procs : DeclareDeadLetterQueue(p)
    \/ \E p \in Procs : SendMessageToQueueBody(p)
    \/ \E p \in Procs : CloseChannel(p)
    \/ \E p \in Procs : CloseConn(p)
    \/ \E p \in Procs : ReadBody(p)
    \/ \E p \in Procs : Unlock(p)
    \/ BrokerDownBetweenCalls
    \/ BrokerBackBetweenCalls
    \/ ChannelExceptionBetweenCalls

SpecSteady == Init /\ [][SteadyNext]_vars

(* ------------------------ callers and the lock ------------------------ *)
\* Every public function called by two goroutines, one of them a consumer,
\* on a broker that fails and comes back at any moment; the messages are
\* those of SendMessageToQueue; each call, once begun, runs to its return
\* (every broker call returns).
CallStep(p) ==
    \/ ensureChannelDial(p)
    \/ ensureChannelOpen(p)
    \/ DeclareMainQueue(p)
    \/ BindMainQueue(p)
    \/ DeclareRetryQueue(p)
    \/ DeclareDeadLetterQueue(p)
    \/ SendMessageToQueueBody(p)
    \/ ConsumeFromQueueBody(p)
    \/ CopyMessageToQueueBody(p)
    \/ CloseChannel(p)
    \/ CloseConn(p)
    \/ ReadBody(p)
    \/ Unlock(p)

LockNext ==
    \/ \E p \in Procs : ConnectRabbitMQ(p)
    \/ \E p \in Procs : SendMessageToQueue(p)
    \/ \E p \in Procs : ConsumeFromQueue(p, MainQueueName)
    \/ \E p \in Procs : CopyMessageToQueue(p, RetryQueueName)
    \/ \E p \in Procs : Close(p)
    \/ \E p \in Procs : IsConnected(p)
    \/ \E p \in Procs : IsHealthy(p)
    \/ \E p \in Procs : GetChannel(p)
    \/ \E p \in Procs : GetConnection(p)
    \/ \E p \in Procs : CallStep(p)
    \/ BrokerDown
    \/ BrokerBack
    \/ ChannelException
    \/ \E p \in Procs : Deliver(p)

SpecLock ==
    /\ Init /\ [][LockNext]_vars
    /\ \A p \in Procs : WF_vars(CallStep(p))

(* ------------------------- the logged URL ----------------------------- *)
\* ensureChannel under every configured password: one caller provisions the
\* topology on a reachable broker.
Passwords == StringsUpTo(MaxPasswordLen)

UrlInit ==
    /\ conn = NilConn
    /\ channel = NilChannel
    /\ mu = NoOwner
    /\ brokerUp = TRUE
    /\ declared = {}
    /\ bound = {}
    /\ queues = [q \in QueueNames |-> << >>]
    /\ maxAttempts = 0
    /\ pc = [p \in Procs |-> "idle"]
    /\ call = [p \in Procs |-> NoCall]
    /\ dlv = [p \in Procs |-> NoDelivery]
    /\ consuming = [p \in Procs |-> "none"]
    /\ injected = FALSE
    /\ mqconfig \in {Config(password) : password \in Passwords}
    /\ urlObfuscated = NotLogged

UrlNext ==
    \/ ConnectRabbitMQ(Consumer)
    \/ ensureChannelDial(Consumer)
    \/ ensureChannelOpen(Consumer)
    \/ DeclareMainQueue(Consumer)
    \/ BindMainQueue(Consumer)
    \/ DeclareRetryQueue(Consumer)
    \/ DeclareDeadLetterQueue(Consumer)
    \/ Unlock(Consumer)

SpecUrl == UrlInit /\ [][UrlNext]_vars

(* ============================== claims ================================ *)
\* a forwarder call of caller p whose part after ensureChannel has run and
\* which is about to return
CopyDone(p) ==
    /\ pc[p] = "unlock"
    /\ call[p].name = "CopyMessageToQueue"
    /\ call[p].ran

\* a forwarder call that built its outgoing message (it did not panic)
CopyBuilt(p) == CopyDone(p) /\ call[p].ret # "panic"

\* the number a decimal string denotes, -1 when it is not one
DigitValue(c) == CASE c = "0" -> 0 [] c = "1" -> 1 [] c = "2" -> 2 [] c = "3" -> 3
                   [] c = "4" -> 4 [] c = "5" -> 5 [] c = "6" -> 6 [] c = "7" -> 7
                   [] c = "8" -> 8 [] c = "9" -> 9 [] OTHER -> -1

RECURSIVE DecimalValue(_)
DecimalValue(str) ==
    IF str = << >> THEN -1
    ELSE IF DigitValue(str[Len(str)]) < 0 THEN -1
    ELSE IF Len(str) = 1 THEN DigitValue(str[1])
    ELSE IF DecimalValue(SubSeq(str, 1, Len(str) - 1)) <= 0 THEN -1
    ELSE 10 * DecimalValue(SubSeq(str, 1, Len(str) - 1)) + DigitValue(str[Len(str)])

\* C1: escalation decision. For a delivery with X-Retry-Count = k (absent:
\* 0) and maxAttempts = m: if k + 1 >= m + 1 the message goes to the
\* dead-letter queue without expiration, whatever the target; otherwise it
\* goes to the caller's target and, when X-Retry-TTL is present and > 0, its
\* expiration is that value in decimal.
C1_EscalationDecision ==
    \A p \in Procs :
        CopyBuilt(p) =>
            LET k == CountOf(call[p].hdrIn)
                ttl == call[p].hdrIn.ttl
                out == call[p].out
            IN  IF k >= maxAttempts
                THEN out.q = DeadLetterQueueName /\ out.exp = NoExpiration
                ELSE /\ out.q = call[p].arg
                     /\ (ttl # None /\ ttl.v > 0) => DecimalValue(out.exp) = ttl.v

\* C2: retry budget. A message that began without X-Retry-Count and is
\* forwarded to the retry queue once per delivery is published, by its n-th
\* forwarder call, with X-Retry-Count = n: to the retry queue for n <= m,
\* to the dead-letter queue without expiration for n = m + 1, and there is
\* no later call.
C2_RetryBudget ==
    \A p \in Procs :
        (CopyBuilt(p) /\ call[p].published /\ dlv[p].fresh /\ dlv[p].calls = 1) =>
            LET n == dlv[p].esc
                out == call[p].out
            IN  /\ out.hdr.rc.v = n
                /\ n <= maxAttempts + 1
                /\ (n <= maxAttempts) => out.q = RetryQueueName
                /\ (n = maxAttempts + 1) =>
                      (out.q = DeadLetterQueueName /\ out.exp = NoExpiration)

\* C3: n forwarder calls in sequence on one delivery object that arrived
\* without X-Retry-Count: the n-th call returns normally, its message
\* carries X-Retry-Count = n, and it goes to the dead-letter queue exactly
\* when n >= m + 1.
C3_SameDelivery ==
    \A p \in Procs :
        (CopyDone(p) /\ dlv[p].noCount /\ ~dlv[p].hdr.nil
                     /\ call[p].arg = RetryQueueName) =>
            LET n == dlv[p].calls
                out == call[p].out
            IN  /\ call[p].ret # "panic"
                /\ out.hdr.rc.v = n
                /\ (out.q = DeadLetterQueueName) <=> (n >= maxAttempts + 1)

\* C4: a delivery without X-Retry-Count (its header map empty or nil
\* included) yields, in one forwarder call, a message with X-Retry-Count = 1.
C4_FirstCount ==
    \A p \in Procs :
        (CopyDone(p) /\ call[p].hdrIn.rc = None) =>
            /\ call[p].ret # "panic"
            /\ call[p].out.hdr.rc.v = 1

\* C5: X-Retry-Count never decreases: the message a forwarder call builds
\* carries a count greater than the delivery's, by exactly 1.
C5_CountMonotone ==
    \A p \in Procs :
        CopyBuilt(p) =>
            LET k == CountOf(call[p].hdrIn)
                k1 == call[p].out.hdr.rc.v
            IN  /\ k1 > k
                /\ (k < MaxInt32) => k1 = k + 1

\* C6: no engine operation panics: every call ends by returning success or
\* an error value.
C6_NoPanic == \A p \in Procs : call[p].ret # "panic"

\* C7: the forwarder leaves the header map of the delivery the caller holds
\* as it was before the call.
C7_DeliveryUntouched ==
    \A p \in Procs : CopyDone(p) => dlv[p].hdr = call[p].hdrIn

\* C8: a forwarder call that returns an error has put no message in any
\* queue: a step of a forwarder call that changes a queue is the step of a
\* call returning success.
C8_ErrorMeansNotForwarded ==
    [][\A p \in Procs :
          (call'[p].name = "CopyMessageToQueue" /\ pc'[p] # pc[p] /\ queues' # queues)
              => call'[p].ret = "ok"]_vars

\* a forwarder call about to return the error of the broker publish, with
\* the message it built in hand
C8_Witness ==
    \E p \in Procs :
        /\ CopyDone(p) /\ call[p].ret = "error" /\ ~call[p].published
        /\ call[p].out.q \in QueueNames /\ IsDeclared(call[p].out.q)

\* C9: every public operation holds the engine lock from its first to its
\* last step, so at most one caller is inside an operation, and the
\* connection and channel handles are written only by the caller holding
\* the lock.
C9_Serialized ==
    [][/\ \A p \in Procs : (pc'[p] # "idle") <=> (mu' = p)
       /\ (conn'.nil # conn.nil \/ channel'.nil # channel.nil
             \/ (conn.closed /\ ~conn'.closed)
             \/ (channel.closed /\ ~channel'.closed)
             \/ channel'.onConn # channel.onConn)
          => (mu \in Procs /\ pc[mu] # "idle" /\ pc'[mu] # pc[mu])]_vars

\* one caller inside an operation, having replaced both handles, while the
\* other caller is outside and cannot enter
C9_Witness ==
    \E p \in Procs :
        /\ mu = p /\ pc[p] = "body" /\ call[p].dialed /\ call[p].opened
        /\ \E q \in Procs \ {p} : pc[q] = "idle" /\ ~MuLock(q)

\* C10: ensureChannel with the connection and the channel open calls
\* neither amqp091.Dial nor conn.Channel(), leaves both handles unchanged
\* and returns nil.
C10_EnsureIdempotent ==
    [][\A p \in Procs :
          /\ (pc[p] = "dial" /\ pc'[p] # "dial" /\ ~conn.nil /\ ~conn.closed)
                => /\ conn' = conn /\ channel' = channel
                   /\ ~call'[p].dialed
                   /\ pc'[p] = "open"
          /\ (pc[p] = "open" /\ pc'[p] # "open" /\ ~channel.nil /\ ~channel.closed)
                => /\ conn' = conn /\ channel' = channel
                   /\ ~call'[p].opened
                   /\ pc'[p] \in {"body", "declareMain"}]_vars

\* an operation past ensureChannel that neither dialled nor opened a channel
C10_Witness ==
    \E p \in Procs :
        /\ pc[p] = "body" /\ ~call[p].dialed /\ ~call[p].opened
        /\ ~conn.nil /\ ~conn.closed /\ ~channel.nil /\ ~channel.closed

\* C11: SendMessageToQueue called while the connection is closed and the
\* broker is reachable dials, opens a channel and publishes: it returns
\* success, and both handles are open afterwards.
C11_PublishReconnects ==
    \A p \in Procs :
        (/\ pc[p] = "unlock" /\ call[p].name = "SendMessageToQueue"
         /\ call[p].connWasClosed /\ brokerUp) =>
            /\ call[p].dialed /\ call[p].opened
            /\ call[p].published /\ call[p].ret = "ok"
            /\ ~conn.nil /\ ~conn.closed
            /\ ~channel.nil /\ ~channel.closed /\ channel.onConn

\* a publish that began on a closed connection and is returning success
C11_Witness ==
    \E p \in Procs :
        /\ pc[p] = "unlock" /\ call[p].name = "SendMessageToQueue"
        /\ call[p].connWasClosed /\ brokerUp /\ call[p].ret = "ok"

\* C12: IsConnected returns true exactly when both handles are non-nil,
\* closed or not; IsHealthy returns true exactly when both handles are
\* non-nil and the connection is not closed.
C12_HealthReport ==
    [][\A p \in Procs :
          (pc[p] = "read" /\ pc'[p] = "unlock") =>
              /\ call[p].name = "IsConnected" =>
                    /\ call'[p].ret \in {"true", "false"}
                    /\ call'[p].ret = "true" <=> (~conn.nil /\ ~channel.nil)
              /\ call[p].name = "IsHealthy" =>
                    /\ call'[p].ret \in {"true", "false"}
                    /\ call'[p].ret = "true" <=>
                          (~conn.nil /\ ~channel.nil /\ ~conn.closed)]_vars

\* IsHealthy returning false with both handles non-nil and the connection
\* closed (where IsConnected returns true)
C12_Witness ==
    \E p \in Procs :
        /\ pc[p] = "unlock" /\ call[p].name = "IsHealthy" /\ call[p].ret = "false"
        /\ ~conn.nil /\ ~channel.nil /\ conn.closed

\* C13: whenever IsHealthy returns true the channel is open.
C13_HealthyChannel ==
    \A p \in Procs :
        (pc[p] = "unlock" /\ call[p].name = "IsHealthy" /\ call[p].ret = "true")
            => (~channel.nil /\ ~channel.closed)

\* C14: a call of IsConnected or IsHealthy changes neither handle nor
\* anything on the broker, and neither dials nor opens a channel.
C14_ReadersReadOnly ==
    [][\A p \in Procs :
          (/\ pc'[p] # pc[p]
           /\ {call[p].name, call'[p].name} \cap {"IsConnected", "IsHealthy"} # {})
              => /\ conn' = conn /\ channel' = channel
                 /\ brokerUp' = brokerUp /\ declared' = declared
                 /\ bound' = bound /\ queues' = queues
                 /\ consuming' = consuming
                 /\ ~call'[p].dialed /\ ~call'[p].opened]_vars

\* a health check returning "false" with the handles absent
C14_Witness ==
    \E p \in Procs :
        /\ pc[p] = "unlock" /\ call[p].name \in {"IsConnected", "IsHealthy"}
        /\ call[p].ran /\ call[p].ret = "false"
        /\ conn.nil /\ channel.nil

\* C15: a ConnectRabbitMQ that returns nil leaves exactly three queues
\* declared, under the main, retry and dead-letter names; the main queue
\* bound with its own name as routing key; the retry queue with
\* x-message-ttl = RetryTTL, x-dead-letter-exchange = "" and
\* x-dead-letter-routing-key = main queue name; the other two without
\* arguments.
C15_Topology ==
    \A p \in Procs :
        (pc[p] = "unlock" /\ call[p].name = "ConnectRabbitMQ" /\ call[p].ret = "ok")
            => /\ declared =
                    {[name |-> MainQueueName, args |-> NoArgs],
                     [name |-> RetryQueueName,
                      args |-> [ttl |-> RetryTTL, dlx |-> "", dlrk |-> MainQueueName]],
                     [name |-> DeadLetterQueueName, args |-> NoArgs]}
               /\ bound = {<<MainQueueName, MainQueueName>>}

\* a provisioning call returning nil
C15_Witness ==
    \E p \in Procs :
        /\ pc[p] = "unlock" /\ call[p].name = "ConnectRabbitMQ"
        /\ call[p].ran /\ call[p].ret = "ok"

\* C16: a SendMessageToQueue call publishes at most once, after
\* ensureChannel succeeded, through the configured exchange with the main
\* queue's name as routing key (the message reaches the main queue when it
\* is bound). It returns success exactly when the broker took the message,
\* and an error otherwise, without a second attempt.
C16_PublishOnce ==
    [][\A p \in Procs :
          (call'[p].name = "SendMessageToQueue" /\ pc'[p] # pc[p]) =>
              LET c == call'[p]
                  routed == <<MainQueueName, MainQueueName>> \in bound
                               /\ IsDeclared(MainQueueName)
              IN  /\ pc[p] = "body" => pc'[p] = "unlock"
                  /\ pc'[p] # "unlock" => (queues' = queues /\ ~c.published)
                  /\ pc'[p] = "unlock" =>
                        /\ c.ret \in {"ok", "error"}
                        /\ c.ret = "ok" <=> c.published
                        /\ c.published =>
                              /\ pc[p] = "body" /\ ~channel.nil /\ ~channel.closed
                              /\ routed => queues' =
                                    [queues EXCEPT ![MainQueueName] =
                                        Append(@, Msg(NilHeaders, NoExpiration, 0, TRUE))]
                              /\ ~routed => queues' = queues
                        /\ ~c.published => queues' = queues]_vars

\* a publish call returning the error of the broker publish
C16_Witness ==
    \E p \in Procs :
        /\ pc[p] = "unlock" /\ call[p].name = "SendMessageToQueue"
        /\ call[p].ran /\ call[p].ret = "error" /\ ~call[p].published

\* does str contain sub as a substring?
Contains(str, sub) ==
    \E i \in 1..(Len(str) - Len(sub) + 1) : SubSeq(str, i, i + Len(sub) - 1) = sub

\* the first 4 characters of a string (all of it when it is shorter)
First4(str) == SubSeq(str, 1, IF Len(str) < 4 THEN Len(str) ELSE 4)

\* C17: for every non-empty configured password, the URL written to the log
\* does not contain the password; where the password stands it carries the
\* password's first 4 characters followed by "...".
C17_PasswordRedacted ==
    (urlObfuscated # NotLogged /\ mqconfig.Password # << >>) =>
        /\ ~Contains(urlObfuscated, mqconfig.Password)
        /\ Contains(urlObfuscated,
                    <<":">> \o First4(mqconfig.Password) \o Ellipsis \o <<"@">>)

\* the names of the queues in a set of declarations
DeclaredNames(d) == {x.name : x \in d}

\* C18: ConnectRabbitMQ goes through ensureChannel, declare main queue,
\* bind main queue, declare retry queue, declare dead-letter queue in this
\* order, each step doing its own broker call only; a step that fails ends
\* the call with an error and changes nothing, and only the last step ends
\* it with success. So the dead-letter queue is declared only with the main
\* queue declared and bound and the retry queue declared.
C18_ProvisioningOrder ==
    [][/\ \A p \in Procs :
            (call'[p].name = "ConnectRabbitMQ" /\ pc'[p] # pc[p]) =>
                LET new == DeclaredNames(declared') \ DeclaredNames(declared)
                    failed == pc'[p] = "unlock" /\ call'[p].ret # "ok"
                IN  /\ <<pc[p], pc'[p]>> \in
                          {<<"idle", "dial">>, <<"dial", "open">>,
                           <<"open", "declareMain">>,
                           <<"declareMain", "bindMain">>,
                           <<"bindMain", "declareRetry">>,
                           <<"declareRetry", "declareDead">>,
                           <<"declareDead", "unlock">>}
                          \cup {<<at, "unlock">> :
                                   at \in {"dial", "open", "declareMain",
                                           "bindMain", "declareRetry"}}
                    /\ failed => (call'[p].ret = "error" /\ declared' = declared
                                  /\ bound' = bound)
                    /\ call'[p].ret = "ok" => (pc[p] = "declareDead" /\ ~failed)
                    /\ new \subseteq
                          IF failed THEN {}
                          ELSE IF pc[p] = "declareMain" THEN {MainQueueName}
                          ELSE IF pc[p] = "declareRetry" THEN {RetryQueueName}
                          ELSE IF pc[p] = "declareDead" THEN {DeadLetterQueueName}
                          ELSE {}
                    /\ bound' # bound => pc[p] = "bindMain"
                    /\ (pc[p] = "declareMain" /\ ~failed)
                          => MainQueueName \in DeclaredNames(declared')
                    /\ (pc[p] = "bindMain" /\ ~failed)
                          => <<MainQueueName, MainQueueName>> \in bound'
                    /\ (pc[p] = "declareRetry" /\ ~failed)
                          => RetryQueueName \in DeclaredNames(declared')
                    /\ (pc[p] = "declareDead" /\ ~failed)
                          => DeadLetterQueueName \in DeclaredNames(declared')
       /\ DeadLetterQueueName \in DeclaredNames(declared') =>
             /\ {MainQueueName, RetryQueueName} \subseteq DeclaredNames(declared')
             /\ <<MainQueueName, MainQueueName>> \in bound'
       /\ RetryQueueName \in DeclaredNames(declared') =>
             /\ MainQueueName \in DeclaredNames(declared')
             /\ <<MainQueueName, MainQueueName>> \in bound']_vars

\* a provisioning call that failed at the retry queue: the main queue is
\* declared and bound, the retry and dead-letter queues are not declared
C18_Witness ==
    \E p \in Procs :
        /\ pc[p] = "unlock" /\ call[p].name = "ConnectRabbitMQ"
        /\ call[p].ret = "error"
        /\ IsDeclared(MainQueueName)
        /\ <<MainQueueName, MainQueueName>> \in bound
        /\ ~IsDeclared(RetryQueueName) /\ ~IsDeclared(DeadLetterQueueName)

\* the message at the head of the retry queue is the copy made by the n-th
\* forwarder publish of its history, and the main queue can take it
RetryHead(n) ==
    /\ queues[RetryQueueName] # << >>
    /\ Head(queues[RetryQueueName]).esc = n
    /\ HasRoom(MainQueueName)

\* that copy is the newest message of the main queue, without expiration
BackInMain(n) ==
    /\ queues[MainQueueName] # << >>
    /\ queues[MainQueueName][Len(queues[MainQueueName])].esc = n
    /\ queues[MainQueueName][Len(queues[MainQueueName])].exp = NoExpiration

\* the forwarder publishes recorded in a message's history
Escalations == 1..(MaxAttemptsBound + 2)

\* C19: a message leaves the retry queue only by the broker moving it, as
\* it is but for its expiration, to the end of the main queue, in a step
\* that is no step of an engine operation; and every message that reaches
\* the head of the retry queue is moved to the main queue.
C19_Redelivery ==
    /\ [][queues'[RetryQueueName] # queues[RetryQueueName] =>
             \/ /\ queues[RetryQueueName] # << >>
                /\ queues'[RetryQueueName] = Tail(queues[RetryQueueName])
                /\ queues'[MainQueueName] =
                      Append(queues[MainQueueName],
                             [Head(queues[RetryQueueName]) EXCEPT !.exp = NoExpiration])
                /\ pc' = pc /\ call' = call /\ mu' = mu
             \/ /\ \E m \in {queues'[RetryQueueName][Len(queues'[RetryQueueName])]} :
                      queues'[RetryQueueName] = Append(queues[RetryQueueName], m)
                /\ \E p \in Procs : call'[p].name = "CopyMessageToQueue"
                                      /\ call'[p].published]_vars
    /\ \A n \in Escalations : RetryHead(n) ~> BackInMain(n)

\* a message forwarded to the retry queue is back at the head of the main
\* queue, the retry queue empty again
C19_Witness ==
    /\ queues[RetryQueueName] = << >>
    /\ queues[MainQueueName] # << >>
    /\ Head(queues[MainQueueName]).esc > 0
    /\ Head(queues[MainQueueName]).hdr.rc.v > 0

\* C20 as stated: a message the forwarder put in the retry queue without
\* expiration (no X-Retry-TTL, within the retry budget) stays in the retry
\* queue.
C20_StaysInRetryQueue ==
    [][(/\ queues[RetryQueueName] # << >>
        /\ Head(queues[RetryQueueName]).exp = NoExpiration)
          => (/\ queues'[RetryQueueName] # << >>
              /\ Head(queues'[RetryQueueName]) = Head(queues[RetryQueueName]))]_vars

\* C20: a delivery without X-Retry-TTL that the forwarder sends to the
\* caller's queue gives a message without expiration; in the retry queue
\* that message expires by the queue's x-message-ttl and is moved to the
\* main queue.
C20_NoTTLReturns ==
    /\ [](\A p \in Procs :
            (CopyBuilt(p) /\ call[p].hdrIn.ttl = None
                          /\ call[p].out.q = call[p].arg)
                => call[p].out.exp = NoExpiration)
    /\ \A n \in Escalations :
          (RetryHead(n) /\ Head(queues[RetryQueueName]).exp = NoExpiration)
              ~> BackInMain(n)

\* a message forwarded without expiration is back in the main queue
C20_Witness ==
    /\ queues[RetryQueueName] = << >>
    /\ queues[MainQueueName] # << >>
    /\ Head(queues[MainQueueName]).esc > 0
    /\ Head(queues[MainQueueName]).hdr.ttl = None

\* a forwarder call of caller p that is a retry after a failed publish: the
\* delivery p holds arrived with a header map and without X-Retry-Count,
\* carries no X-Retry-TTL that the forwarder cannot read, has been through
\* the forwarder before, and none of those calls had its message taken by
\* the broker (PublishWithContext returned an error, lines 1132-1134)
RetryAfterFailedPublish(p) ==
    /\ call[p].name = "CopyMessageToQueue"
    /\ dlv[p].calls >= 1
    /\ dlv[p].noCount /\ ~dlv[p].hdr.nil /\ ~TTLPanics(dlv[p].hdr)
    /\ dlv[p].esc = 0

\* C21: after an operation failed at the dial, the channel-open or the
\* broker call, the next SendMessageToQueue or CopyMessageToQueue call made
\* with the broker reachable repairs the handles and succeeds: its dial
\* leaves an open connection, its channel-open leaves an open channel on
\* that connection, and its publish on that channel is taken by the broker
\* and returns success, for a SendMessageToQueue call and for a
\* CopyMessageToQueue call retried on the delivery whose publish failed.
C21_Recoverable ==
    [][\A p \in Procs :
          call[p].name \in {"SendMessageToQueue", "CopyMessageToQueue"} =>
              /\ (pc[p] = "dial" /\ pc'[p] # "dial" /\ brokerUp) =>
                    /\ pc'[p] = "open"
                    /\ ~conn'.nil /\ ~conn'.closed
                    /\ call'[p].ret = "none"
              /\ (pc[p] = "open" /\ pc'[p] # "open" /\ ~conn.nil /\ ~conn.closed) =>
                    /\ pc'[p] = "body"
                    /\ ~channel'.nil /\ ~channel'.closed /\ channel'.onConn
                    /\ call'[p].ret = "none"
              /\ (/\ pc[p] = "body" /\ pc'[p] # "body"
                  /\ ~channel.nil /\ ~channel.closed
                  /\ \/ call[p].name = "SendMessageToQueue"
                     \/ RetryAfterFailedPublish(p)) =>
                    /\ call'[p].published
                    /\ call'[p].ret = "ok"]_vars

\* the handle h2 is the handle h, at most marked closed by the client library
SameHandle(h, h2) == h2 = h \/ (~h.nil /\ h2 = [h EXCEPT !.closed = TRUE])

\* C22: the connection and channel handles are replaced or cleared only by
\* the ensureChannel steps of ConnectRabbitMQ, SendMessageToQueue,
\* ConsumeFromQueue and CopyMessageToQueue and by Close; a broker-side close
\* leaves them in place, so that IsConnected run on a closed connection
\* returns true and IsHealthy returns false.
C22_LazyReconnect ==
    [][/\ (~SameHandle(conn, conn') \/ ~SameHandle(channel, channel')) =>
            \E p \in Procs :
                /\ mu = p
                /\ \/ /\ pc[p] \in {"dial", "open"}
                      /\ call[p].name \in {"ConnectRabbitMQ", "SendMessageToQueue",
                                            "ConsumeFromQueue", "CopyMessageToQueue"}
                   \/ pc[p] = "closeConn" /\ call[p].name = "Close"
       /\ \A p \in Procs :
             (/\ pc[p] = "read" /\ pc'[p] = "unlock"
              /\ ~conn.nil /\ conn.closed /\ ~channel.nil) =>
                 /\ call[p].name = "IsConnected" => call'[p].ret = "true"
                 /\ call[p].name = "IsHealthy" => call'[p].ret = "false"
                 /\ conn' = conn /\ channel' = channel]_vars

\* IsConnected has returned true on a connection the broker closed, with the
\* broker reachable again and nothing re-dialled
C22_Witness ==
    \E p \in Procs :
        /\ pc[p] = "unlock" /\ call[p].name = "IsConnected"
        /\ call[p].ret = "true"
        /\ ~conn.nil /\ conn.closed /\ brokerUp

\* C23: a consumer with a registered stream and a message waiting can read
\* its next delivery whoever holds the engine lock, and the read leaves the
\* lock and every caller's position in the engine as they were.
C23_StreamOutsideLock ==
    /\ [](\A p \in Procs :
             (pc[p] = "idle" /\ consuming[p] # "none"
                /\ queues[consuming[p]] # << >>) => ENABLED Deliver(p))
    /\ [][\A p \in Procs :
             (pc[p] = "idle" /\ dlv'[p] # dlv[p]) =>
                 /\ mu' = mu /\ pc' = pc /\ call' = call
                 /\ conn' = conn /\ channel' = channel]_vars

\* the other caller is in the broker round trip of its publish, holding the
\* lock; the consumer has read a delivery from its stream and can read the
\* next one
C23_Witness ==
    /\ mu = "c2" /\ pc["c2"] = "body"
    /\ call["c2"].name = "SendMessageToQueue"
    /\ pc["c1"] = "idle" /\ dlv["c1"].held
    /\ consuming["c1"] = MainQueueName
    /\ queues[MainQueueName] # << >>
    /\ ENABLED Deliver("c1")

\* the properties the claim lists
CopiedProperties ==
    {"ContentType", "Body", "CorrelationId", "AppId", "ReplyTo", "MessageId",
     "Timestamp"}

\* C24: the message CopyMessageToQueue builds has the delivery's content
\* type, body, correlation id, application id, reply-to, message id and
\* timestamp and the delivery's X-Retry-TTL header; it is published to the
\* exchange "" with the decided queue as routing key, so that it is
\* appended to that queue when the queue exists.
C24_MessagePreserved ==
    [][\A p \in Procs :
          (/\ pc[p] = "body" /\ call[p].name = "CopyMessageToQueue"
           /\ pc'[p] = "unlock" /\ call'[p].ret # "panic") =>
              LET c == call'[p]
                  d == dlv[p]
              IN  /\ \A f \in CopiedProperties : c.pub[f] = d.props[f]
                  /\ ~c.out.hdr.nil /\ c.out.hdr.ttl = d.hdr.ttl
                  /\ c.exchange = ""
                  /\ c.out.q \in {c.arg, DeadLetterQueueName}
                  /\ c.published =>
                        \A q \in QueueNames :
                            IF q = c.out.q /\ (\E x \in declared : x.name = q)
                            THEN /\ Len(queues'[q]) = Len(queues[q]) + 1
                                 /\ \A i \in 1..Len(queues[q]) :
                                        queues'[q][i] = queues[q][i]
                                 /\ LET m == queues'[q][Len(queues'[q])]
                                    IN  /\ \A f \in CopiedProperties :
                                              m.props[f] = d.props[f]
                                        /\ m.exp = c.out.exp
                                        /\ CountOf(m.hdr) = CountOf(c.out.hdr)
                                        /\ m.hdr.ttl.v = d.hdr.ttl.v
                            ELSE queues'[q] = queues[q]]_vars

\* a delivery with every property set has been forwarded to the retry
\* queue, where its copy sits with the reply-to and message id of the
\* original
C24_Witness ==
    \E p \in Procs :
        /\ pc[p] = "unlock" /\ call[p].name = "CopyMessageToQueue"
        /\ call[p].published /\ call[p].ret = "ok"
        /\ call[p].out.q = RetryQueueName
        /\ dlv[p].props = ExternalProperties
        /\ queues[RetryQueueName] # << >>
        /\ LET m == queues[RetryQueueName][Len(queues[RetryQueueName])]
           IN  m.props.ReplyTo = "replies" /\ m.props.MessageId = "m-1"

\* C25: a SendMessageToQueue, ConsumeFromQueue or CopyMessageToQueue call
\* returns success only when the three queues of the topology have been
\* declared and the main queue bound, so that the message it routes finds
\* its queue.
C25_ProvisionedFirst ==
    \A p \in Procs :
        (/\ pc[p] = "unlock" /\ call[p].ret = "ok"
         /\ call[p].name \in {"SendMessageToQueue", "ConsumeFromQueue",
                               "CopyMessageToQueue"}) =>
            /\ \A q \in QueueNames : \E d \in declared : d.name = q
            /\ bound # {}

\* C26: once the consumer is registered on the main queue, a message in the
\* main queue leads to a message in the dead-letter queue, and the
\* dead-letter queue never loses a message.
C26_ReachesDeadLetter ==
    /\ (consuming[Consumer] = MainQueueName /\ queues[MainQueueName] # << >>)
           ~> (queues[DeadLetterQueueName] # << >>)
    /\ [][Len(queues'[DeadLetterQueueName]) >= Len(queues[DeadLetterQueueName])]_vars

\* C27: every message that CopyMessageToQueue publishes to the dead-letter
\* queue has an empty expiration, whether the queue was decided by the
\* retry budget or named by the caller.
C27_DeadLetterNoExpiration ==
    /\ \A p \in Procs :
          (/\ pc[p] = "unlock" /\ call[p].name = "CopyMessageToQueue"
           /\ call[p].published /\ call[p].out.q = DeadLetterQueueName) =>
              call[p].out.exp = NoExpiration
    /\ \A i \in 1..Len(queues[DeadLetterQueueName]) :
          queues[DeadLetterQueueName][i].exp = NoExpiration

\* C28: a CopyMessageToQueue call that returns an error, from ensureChannel
\* or from the publish, leaves X-Retry-Count of the delivery as it was when
\* the call began.
C28_FailedCopyKeepsCount ==
    \A p \in Procs :
        (/\ pc[p] = "unlock" /\ call[p].name = "CopyMessageToQueue"
         /\ call[p].ret = "error") =>
            dlv[p].hdr.rc = call[p].hdrIn.rc

\* C29: when ensureChannel returns nil the channel handle is non-nil, open
\* and a channel of the connection that the connection handle holds, which
\* is open; an open channel is never one of a replaced connection; and
\* amqp091.Dial is called only while the connection handle is nil or
\* closed, so that the engine never has two open connections.
C29_HandlesConsistent ==
    /\ []((~channel.nil /\ ~channel.closed) =>
              (channel.onConn /\ ~conn.nil /\ ~conn.closed))
    /\ [][\A p \in Procs :
             /\ (pc[p] = "open" /\ pc'[p] \in {"body", "declareMain"}) =>
                   /\ ~channel'.nil /\ ~channel'.closed /\ channel'.onConn
                   /\ ~conn'.nil /\ ~conn'.closed
             /\ (pc[p] = "dial" /\ call'[p].dialed) =>
                   (conn.nil \/ conn.closed)]_vars

\* ensureChannel has returned nil after replacing a closed connection and
\* the closed channel that belonged to it
C29_Witness ==
    \E p \in Procs :
        /\ pc[p] = "body"
        /\ call[p].connWasClosed /\ call[p].dialed /\ call[p].opened
        /\ ~channel.nil /\ ~channel.closed /\ channel.onConn
        /\ ~conn.nil /\ ~conn.closed

\* C30: no caller is outside an operation while it holds the lock; every
\* operation ends, whatever it returns, in the step that releases the lock;
\* a free lock can be taken by any caller; and a lock that is held is
\* released.
C30_LockReleased ==
    /\ [](\A p \in Procs : pc[p] = "idle" => mu # p)
    /\ [](mu = NoOwner => \A p \in Procs : ENABLED IsHealthy(p))
    /\ [][\A p \in Procs :
             (pc[p] # "idle" /\ pc'[p] = "idle") =>
                 (pc[p] = "unlock" /\ mu = p /\ mu' = NoOwner)]_vars
    /\ (mu # NoOwner) ~> (mu = NoOwner)

\* the consumer's forwarder call panicked on a delivery without a header
\* map and is over, and the other caller has taken the lock since
C30_Witness ==
    /\ pc["c1"] = "idle"
    /\ dlv["c1"].held /\ dlv["c1"].hdr.nil /\ dlv["c1"].calls = 1
    /\ mu = "c2" /\ pc["c2"] = "read"

====
